---- MODULE Spec2Model ----
(***************************************************************************)
(* newsmon: one bot run (src/main.py main) over the state gist, and the    *)
(* selection function it calls (src/dedupe.py select_new_items).           *)
(*                                                                         *)
(* Encodings.  An item is a record with the fields normalize_feed and main *)
(* give it.  Python None is the string "None" for id, and the number 0 for *)
(* published (a datetime is a positive number, larger = later).  An unset  *)
(* or empty environment variable is the empty string.  A dict is a         *)
(* function whose DOMAIN is the set of keys; a list is a sequence.  Items  *)
(* selected from a list are named by their position in that list, which    *)
(* stands for the identity of the Python dict object.                      *)
(***************************************************************************)
EXTENDS Integers, Sequences, FiniteSets, TLC

VARIABLES
    store,            \* content of the state gist: feed_url -> list of titles
    run,              \* number of runs of main started so far
    pc,               \* position of the current run in main ("idle": none)
    env,              \* os.environ of the current run
    has_telegram,     \* main.py:142
    recent_items,     \* main.py:197 (select_new_items' items argument)
    gist_filename,    \* main.py:210
    past_items,       \* main.py:210 (select_new_items' past_items argument)
    known_items,      \* main.py:211
    max_items,        \* select_new_items' max_items argument
    new_items,        \* main.py:212: positions in recent_items of the selection
    items_by_channel, \* main.py:237: sequence of [chat, items] in key order
    grp,              \* send loop: index of the channel group being sent
    pos,              \* send loop: index of the item within the group
    delivered,        \* messages Telegram accepted in this run: [chat, item]
    admin,            \* number of send_admin calls made in this run
    admin_failed,     \* how many of them failed to send their message
    writes,           \* number of PATCH requests issued to the gist in this run
    snap0,            \* the store content as get_past_items read it in this run
    cause,            \* which call raised inside the try block: "send" | "write"
    report,           \* the message prefix the except handler reported
    outcome,          \* how the run ended
    committed,        \* (feed_url, title) pairs written by successful PATCHes
    prevFailed,       \* candidates and selection of the run before, kept when
                      \* its delivery failed and the next run has the same feeds
    msgs,             \* send_items: number of items in its list
    msg,              \* send_items: index of the item being sent
    max_retries,      \* send_message_with_backoff's max_retries argument
    retry_count,      \* telegram_msg.py:18
    attempts,         \* requests.post calls made for the current message
    total_attempts,   \* requests.post calls made by this send_items call
    sleeps,           \* time.sleep calls of the current send_message_with_backoff
                      \* call: [secs, header], header the Retry-After answered to
    pauses,           \* time.sleep(pause_sec) calls of this send_items call
    failure,          \* why send_message_with_backoff raised
    max_age_days,     \* filter_recent_items' max_age_days argument
    clock,            \* datetime.now(timezone.utc) as the is_recent call of
                      \* each item read it, in seconds
    reads,            \* number of get_past_items calls made in this run
    patched,          \* the file name of the PATCH issued in this run, or ""
    feed_idx,         \* main.py:157: how many entries of feeds the loop has taken
    fetch_log,        \* what each of them gave: [feed_url, ok, items]
    all_items         \* main.py:154

vars == <<store, run, pc, env, has_telegram, recent_items, gist_filename,
          past_items, known_items, max_items, new_items, items_by_channel,
          grp, pos, delivered, admin, admin_failed, writes, snap0, cause, report,
          outcome, committed, prevFailed, msgs, msg, max_retries, retry_count, attempts,
          total_attempts, sleeps, pauses, failure, max_age_days, clock,
          reads, patched, feed_idx, fetch_log, all_items>>

\* The variables of one send_items call with its retries.
bvars == <<msgs, msg, max_retries, retry_count, attempts, total_attempts,
           sleeps, pauses, failure>>

\* The record of the requests made to the gist.
gvars == <<reads, patched>>

\* The variables of the fetch loop of main.
lvars == <<feed_idx, fetch_log, all_items>>

\* The variables of one filter_recent_items call.
fvars == <<max_age_days, clock>>

\* The variables of main other than pc and delivered.
mvars == <<store, run, env, has_telegram, recent_items, gist_filename,
           past_items, known_items, max_items, new_items, items_by_channel,
           grp, pos, admin, admin_failed, writes, snap0, cause, report, outcome,
           committed, prevFailed>>

(***************************************************************************)
(* Bounds of the model.                                                    *)
(***************************************************************************)
MaxLen == 3        \* longest candidate list handed to one run of main
MaxRuns == 2       \* runs of main in one behaviour
MaxSelLen == 3     \* longest list handed to select_new_items on its own
MaxCap == 3        \* largest max_items handed to select_new_items on its own
MaxRetries == 3    \* largest max_retries handed to send_message_with_backoff
MaxMsgs == 2       \* longest list handed to send_items on its own
MaxAgeLen == 3     \* longest list handed to filter_recent_items on its own
MaxRuleLen == 2    \* longest list handed to apply_rules on its own

(***************************************************************************)
(* Program constants.                                                      *)
(***************************************************************************)
MAX_ITEMS_PER_RUN == 10
MAX_ITEM_AGE_DAYS == 30
SecondsPerDay == 86400

(***************************************************************************)
(* Items.                                                                  *)
(***************************************************************************)
Item(f, t, i, l, p, c) ==
    [feed_url |-> f, title |-> t, id |-> i, link |-> l, published |-> p,
     channel_id |-> c]

\* Inputs of select_new_items on its own: same id with different titles
\* (a1, a2), no id and the same link (b2, b3), equal published (a1, a3),
\* dated and undated items of one feed (a1, a4), (b1, b3).
SelItems ==
    { Item("feedA", "X", "id1",  "l1", 1, "TG_A"),
      Item("feedA", "Y", "id1",  "l2", 2, "TG_A"),
      Item("feedA", "Z", "None", "l2", 1, "TG_A"),
      Item("feedA", "Y", "None", "l3", 0, "TG_A"),
      Item("feedB", "X", "id2",  "l4", 2, "TG_B"),
      Item("feedB", "Y", "None", "l5", 1, "TG_B"),
      Item("feedB", "Z", "None", "l5", 0, "TG_B") }

\* Candidates of a run of main; the channel reference is the feed's topic's.
RunItems ==
    { Item("feedA", "X", "id1",  "l1", 1, "TG_A"),
      Item("feedA", "Y", "id2",  "l2", 2, "TG_A"),
      Item("feedB", "X", "None", "l3", 0, "TG_B"),
      Item("feedB", "Y", "id3",  "l4", 1, "TG_B") }

SeqsUpTo(S, n) == UNION { [1..k -> S] : k \in 0..n }

EmptyDict == [f \in {} |-> <<>>]

\* dict.get(key, [])
Get(d, k) == IF k \in DOMAIN d THEN d[k] ELSE <<>>

\* x in list
InList(x, l) == \E k \in 1..Len(l) : l[k] = x

SelSnapshots ==
    { EmptyDict,
      [f \in {"feedA"} |-> <<"X">>],
      [f \in {"feedA", "feedB"} |-> IF f = "feedA" THEN <<"X">> ELSE <<"Y", "Z">>] }

(***************************************************************************)
(* select_new_items (src/dedupe.py:31-68), on positions of its input.      *)
(***************************************************************************)

\* The feeds of items[1..k] with the feed seen last put first.
RECURSIVE FeedOrderLastFirst(_, _)
FeedOrderLastFirst(items, k) ==
    IF k = 0 THEN <<>>
    ELSE LET before == FeedOrderLastFirst(items, k - 1)
         IN IF InList(items[k].feed_url, before) THEN before
            ELSE <<items[k].feed_url>> \o before

\* dedupe.py:44-46: the keys of items_by_feed, in insertion order.
RECURSIVE FeedOrder(_, _)
FeedOrder(items, k) ==
    IF k = 0 THEN <<>>
    ELSE LET before == FeedOrder(items, k - 1)
         IN IF InList(items[k].feed_url, before) THEN before
            ELSE Append(before, items[k].feed_url)

\* dedupe.py:44-46: items_by_feed[feed_url], as positions in items.
RECURSIVE FeedGroup(_, _, _)
FeedGroup(items, f, k) ==
    IF k = 0 THEN <<>>
    ELSE IF items[k].feed_url = f
         THEN Append(FeedGroup(items, f, k - 1), k)
         ELSE FeedGroup(items, f, k - 1)

\* dedupe.py:52: the sort key x["published"] or 0: an int for None, else
\* the datetime itself.
KeyIsInt(x) == x.published = 0

\* dedupe.py:51-53: list.sort compares keys with <; int < datetime raises
\* TypeError.  Sorting a list that holds both kinds of key compares two of
\* different kind at some point.
SortRaises(items, g) ==
    \E a, b \in 1..Len(g) : KeyIsInt(items[g[a]]) /= KeyIsInt(items[g[b]])

\* Insertion of position k into the sorted g, after every key <= its own
\* (list.sort is stable).
RECURSIVE InsertSorted(_, _, _)
InsertSorted(items, g, k) ==
    IF g = <<>> THEN <<k>>
    ELSE IF items[g[Len(g)]].published <= items[k].published
         THEN Append(g, k)
         ELSE Append(InsertSorted(items, SubSeq(g, 1, Len(g) - 1), k), g[Len(g)])

\* dedupe.py:51-53: feed_items.sort(key=...), defined when SortRaises is not.
RECURSIVE SortByPublished(_, _, _)
SortByPublished(items, g, n) ==
    IF n = 0 THEN <<>>
    ELSE InsertSorted(items, SortByPublished(items, g, n - 1), g[n])

\* A selection that takes no account of the snapshot.
InSnapshotNever(item, past, f) == FALSE

\* dedupe.py:59: item.get("title") in past_items.get(feed_url, [])
InSnapshotById(item, past, f) == InList(item.id, Get(past, f))

InSnapshot(item, past, f) == InList(item.title, Get(past, f))

\* dedupe.py:56: len(selected) >= max_items
CapReachedOffByOne(selected, max) == Len(selected) > max

CapReached(selected, max) == Len(selected) >= max

\* dedupe.py:55-63: the scan of one feed's sorted items from position k on.
RECURSIVE ScanFeed(_, _, _, _, _, _, _)
ScanFeed(items, g, k, past, f, max, selected) ==
    IF k > Len(g) THEN selected
    ELSE IF CapReached(selected, max) THEN selected
    ELSE IF InSnapshot(items[g[k]], past, f)
         THEN ScanFeed(items, g, k + 1, past, f, max, selected)
         ELSE ScanFeed(items, g, k + 1, past, f, max, Append(selected, g[k]))

\* dedupe.py:48-66: the loop over the feed groups.
RECURSIVE SelectFeeds(_, _, _, _, _)
SelectFeeds(items, order, past, max, selected) ==
    IF order = <<>> THEN [raised |-> FALSE, sel |-> selected]
    ELSE LET f == Head(order)
             g == FeedGroup(items, f, Len(items))
         IN IF SortRaises(items, g) THEN [raised |-> TRUE, sel |-> <<>>]
            ELSE LET s2 == ScanFeed(items, SortByPublished(items, g, Len(g)),
                                    1, past, f, max, selected)
                 IN IF CapReached(s2, max)
                    THEN [raised |-> FALSE, sel |-> s2]
                    ELSE SelectFeeds(items, Tail(order), past, max, s2)

\* dedupe.py:31-68: the positions selected, or raised when the sort raised.
select_new_items(items, past, max) ==
    SelectFeeds(items, FeedOrder(items, Len(items)), past, max, <<>>)

\* dict.setdefault(key, []): a missing key is added with an empty list.
DictAfterSetdefault(d, k) ==
    IF k \in DOMAIN d THEN d
    ELSE [f \in DOMAIN d \cup {k} |-> IF f = k THEN <<>> ELSE d[f]]

\* dedupe.py:59: the mapping after past_items.get(feed_url, []); dict.get
\* adds no key.
DictAfterGet(d, k) == d

\* dedupe.py:48-66: the past_items argument after the lookups of the loop,
\* made for the feeds of order one after the other.
RECURSIVE PastAfterSelect(_, _)
PastAfterSelect(past, order) ==
    IF order = <<>> THEN past
    ELSE PastAfterSelect(DictAfterGet(past, Head(order)), Tail(order))

\* The selected items themselves.
ItemsAt(items, sel) == [k \in 1..Len(sel) |-> items[sel[k]]]

(***************************************************************************)
(* The environment of a run (os.environ), the gist, Telegram.              *)
(***************************************************************************)
EnvNames ==
    {"TELEGRAM_BOT_TOKEN", "TELEGRAM_CHANNEL_ID", "TELEGRAM_ADMIN_CHANNEL_ID",
     "STATE_GIST_ID", "GH_GIST_UPDATE_TOKEN", "TG_A", "TG_B"}

MkEnv(chan, gist, tga, tgb) ==
    [n \in EnvNames |->
        CASE n = "TELEGRAM_BOT_TOKEN" -> "token"
          [] n = "TELEGRAM_CHANNEL_ID" -> chan
          [] n = "TELEGRAM_ADMIN_CHANNEL_ID" -> "admin_chat"
          [] n = "STATE_GIST_ID" -> gist
          [] n = "GH_GIST_UPDATE_TOKEN" -> "gh_token"
          [] n = "TG_A" -> tga
          [] n = "TG_B" -> tgb]

\* The environments with the gist token, and one without it for each
\* setting of the Telegram fallback and of the gist id.
Envs ==
    { MkEnv(chan, gist, tga, tgb) :
        chan \in {"", "chat0"}, gist \in {"", "gist1"},
        tga \in {"", "chat1"}, tgb \in {"", "chat2"} }
    \cup { [MkEnv(chan, gist, "chat1", "") EXCEPT !["GH_GIST_UPDATE_TOKEN"] = ""] :
             chan \in {"", "chat0"}, gist \in {"", "gist1"} }

\* What the gist holds before the first run.
InitStores == { EmptyDict, [f \in {"feedA"} |-> <<"X">>] }

NoPrev == [items |-> <<>>, sel |-> <<>>]

\* The (feed_url, title) pairs of a snapshot.
Pairs(d) == UNION { { <<f, d[f][k]>> : k \in 1..Len(d[f]) } : f \in DOMAIN d }

(***************************************************************************)
(* main (src/main.py:133-270).                                             *)
(***************************************************************************)

\* main.py:241: os.environ.get(envname) or os.environ.get("TELEGRAM_CHANNEL_ID")
ResolveNoFallback(e, envname) == e[envname]

ResolveFallbackFirst(e, envname) ==
    IF e["TELEGRAM_CHANNEL_ID"] /= "" THEN e["TELEGRAM_CHANNEL_ID"] ELSE e[envname]

Resolve(e, envname) ==
    IF e[envname] /= "" THEN e[envname] ELSE e["TELEGRAM_CHANNEL_ID"]

\* main.py:248: items_by_channel.setdefault(chat, []).append(item)
GroupAppendOverwrite(groups, chat, k) ==
    IF \E g \in 1..Len(groups) : groups[g].chat = chat
    THEN [g \in 1..Len(groups) |->
            IF groups[g].chat = chat
            THEN [chat |-> chat, items |-> <<k>>]
            ELSE groups[g]]
    ELSE Append(groups, [chat |-> chat, items |-> <<k>>])

GroupAppendNewFirst(groups, chat, k) ==
    IF \E g \in 1..Len(groups) : groups[g].chat = chat
    THEN [g \in 1..Len(groups) |->
            IF groups[g].chat = chat
            THEN [chat |-> chat, items |-> Append(groups[g].items, k)]
            ELSE groups[g]]
    ELSE <<[chat |-> chat, items |-> <<k>>]>> \o groups

GroupAppend(groups, chat, k) ==
    IF \E g \in 1..Len(groups) : groups[g].chat = chat
    THEN [g \in 1..Len(groups) |->
            IF groups[g].chat = chat
            THEN [chat |-> chat, items |-> Append(groups[g].items, k)]
            ELSE groups[g]]
    ELSE Append(groups, [chat |-> chat, items |-> <<k>>])

\* main.py:238-248: the grouping loop over new_items[1..k]; an item whose
\* chat is empty is reported to the admin and skipped.
RECURSIVE GroupLoop(_, _, _, _)
GroupLoop(e, items, sel, k) ==
    IF k = 0 THEN [groups |-> <<>>, skipped |-> 0]
    ELSE LET before == GroupLoop(e, items, sel, k - 1)
             chat == Resolve(e, items[sel[k]].channel_id)
         IN IF chat = ""
            THEN [groups |-> before.groups, skipped |-> before.skipped + 1]
            ELSE [groups |-> GroupAppend(before.groups, chat, k),
                  skipped |-> before.skipped]

\* The loop without the membership test: every title is appended.
RECURSIVE AddTitlesNoCheck(_, _, _, _)
AddTitlesNoCheck(known, items, sel, k) ==
    IF k = 0 THEN known
    ELSE LET before == AddTitlesNoCheck(known, items, sel, k - 1)
             it == items[sel[k]]
         IN [f \in DOMAIN before \cup {it.feed_url} |->
                IF f = it.feed_url
                THEN Append(Get(before, f), it.title)
                ELSE before[f]]

\* main.py:255-257: the loop that adds the titles of new_items[1..k].
RECURSIVE AddTitles(_, _, _, _)
AddTitles(known, items, sel, k) ==
    IF k = 0 THEN known
    ELSE LET before == AddTitles(known, items, sel, k - 1)
             it == items[sel[k]]
         IN IF InList(it.title, Get(before, it.feed_url))
            THEN before
            ELSE [f \in DOMAIN before \cup {it.feed_url} |->
                    IF f = it.feed_url
                    THEN Append(Get(before, f), it.title)
                    ELSE before[f]]

send_admin_raises(sent) == ~sent

\* telegram_msg.py:82-90: whether send_admin raises, given whether its
\* send_message call sent the message or raised; `except Exception` catches
\* whatever the try block raised and only prints.
send_admin(sent) ==
    LET raised_in_try == ~sent
        caught == raised_in_try
    IN raised_in_try /\ ~caught

\* n calls of send_admin in a row, of which k fail to send; main goes on to
\* position npc with outcome nout, unless a call raises and ends the run.
Notify(n, npc, nout) ==
    \E k \in 0..n :
        LET raised == k > 0 /\ send_admin(FALSE)
        IN /\ admin' = admin + n
           /\ admin_failed' = admin_failed + k
           /\ pc' = IF raised THEN "done" ELSE npc
           /\ outcome' = IF raised THEN "admin_error" ELSE nout

\* The fetch loop has not started.
NoFetch ==
    /\ feed_idx = 0
    /\ fetch_log = <<>>
    /\ all_items = <<>>

\* No request has been made to the gist.
NoGistAccess ==
    /\ reads = 0
    /\ patched = ""

\* No filter_recent_items call is under way.
NoFilter ==
    /\ max_age_days = 0
    /\ clock = <<>>

\* No send_items call is under way.
NoSend ==
    /\ msgs = 0
    /\ msg = 0
    /\ max_retries = 0
    /\ retry_count = 0
    /\ attempts = 0
    /\ total_attempts = 0
    /\ sleeps = <<>>
    /\ pauses = 0
    /\ failure = "none"

Init ==
    /\ store \in InitStores
    /\ run = 0
    /\ pc = "idle"
    /\ env = MkEnv("", "", "", "")
    /\ has_telegram = FALSE
    /\ recent_items = <<>>
    /\ gist_filename = ""
    /\ past_items = EmptyDict
    /\ known_items = EmptyDict
    /\ max_items = MAX_ITEMS_PER_RUN
    /\ new_items = <<>>
    /\ items_by_channel = <<>>
    /\ grp = 0
    /\ pos = 0
    /\ delivered = <<>>
    /\ admin = 0
    /\ admin_failed = 0
    /\ writes = 0
    /\ snap0 = EmptyDict
    /\ cause = "none"
    /\ report = "none"
    /\ outcome = "none"
    /\ committed = {}
    /\ prevFailed = NoPrev
    /\ NoSend
    /\ NoFilter
    /\ NoGistAccess
    /\ NoFetch

\* The start of main with has_telegram computed without the fallback channel.
MainStartTelegramWithoutFallback ==
    /\ pc = "idle"
    /\ run < MaxRuns
    /\ run' = run + 1
    /\ \E e \in Envs :
        LET ht == e["TELEGRAM_BOT_TOKEN"] /= "" /\ e["TELEGRAM_ADMIN_CHANNEL_ID"] /= ""
        IN /\ env' = e
           /\ has_telegram' = ht
           /\ IF e["STATE_GIST_ID"] = "" \/ e["GH_GIST_UPDATE_TOKEN"] = ""
              THEN Notify(IF ht THEN 1 ELSE 0, "done", "no_state_config")
              ELSE /\ admin' = 0
                   /\ admin_failed' = 0
                   /\ outcome' = "none"
                   /\ pc' = "fetch"
    /\ UNCHANGED <<store, recent_items, gist_filename, past_items, known_items,
                   max_items, new_items, items_by_channel, grp, pos, delivered,
                   writes, snap0, cause, report, committed, prevFailed>>
    /\ UNCHANGED <<bvars, fvars, gvars, lvars>>

\* The start of main with a test of the gist id only.
MainStartChecksGistIdOnly ==
    /\ pc = "idle"
    /\ run < MaxRuns
    /\ run' = run + 1
    /\ \E e \in Envs :
        LET ht == e["TELEGRAM_BOT_TOKEN"] /= "" /\ e["TELEGRAM_CHANNEL_ID"] /= ""
                    /\ e["TELEGRAM_ADMIN_CHANNEL_ID"] /= ""
        IN /\ env' = e
           /\ has_telegram' = ht
           /\ IF e["STATE_GIST_ID"] = ""
              THEN Notify(IF ht THEN 1 ELSE 0, "done", "no_state_config")
              ELSE /\ admin' = 0
                   /\ admin_failed' = 0
                   /\ outcome' = "none"
                   /\ pc' = "fetch"
    /\ UNCHANGED <<store, recent_items, gist_filename, past_items, known_items,
                   max_items, new_items, items_by_channel, grp, pos, delivered,
                   writes, snap0, cause, report, committed, prevFailed>>
    /\ UNCHANGED <<bvars, fvars, gvars, lvars>>

\* main.py:134-151: the environment is read; without the gist id or token
\* the run ends at once, after one admin notification when Telegram is set.
MainStart ==
    /\ pc = "idle"
    /\ run < MaxRuns
    /\ run' = run + 1
    /\ \E e \in Envs :
        LET ht == e["TELEGRAM_BOT_TOKEN"] /= "" /\ e["TELEGRAM_CHANNEL_ID"] /= ""
                    /\ e["TELEGRAM_ADMIN_CHANNEL_ID"] /= ""
        IN /\ env' = e
           /\ has_telegram' = ht
           /\ IF e["STATE_GIST_ID"] = "" \/ e["GH_GIST_UPDATE_TOKEN"] = ""
              THEN Notify(IF ht THEN 1 ELSE 0, "done", "no_state_config")
              ELSE /\ admin' = 0
                   /\ admin_failed' = 0
                   /\ outcome' = "none"
                   /\ pc' = "fetch"
    /\ UNCHANGED <<store, recent_items, gist_filename, past_items, known_items,
                   max_items, new_items, items_by_channel, grp, pos, delivered,
                   writes, snap0, cause, report, committed, prevFailed>>
    /\ UNCHANGED <<bvars, fvars, gvars, lvars>>

\* main.py:153-207: the feeds are fetched, the rules and the age filter
\* applied; recent_items is what is left.  fetched says whether all_items
\* was non-empty (main.py:184).
FetchAndFilter ==
    /\ pc = "fetch"
    /\ \E its \in (IF prevFailed /= NoPrev THEN {prevFailed.items}
                   ELSE SeqsUpTo(RunItems, MaxLen)),
          fetched \in BOOLEAN :
        /\ its /= <<>> => fetched
        /\ recent_items' = its
        /\ IF its /= <<>>
           THEN /\ pc' = "read"
                /\ UNCHANGED <<admin, admin_failed, outcome>>
           ELSE Notify(IF fetched /\ has_telegram THEN 1 ELSE 0, "done",
                       IF fetched THEN "no_recent_items" ELSE "no_items_fetched")
    /\ UNCHANGED <<store, run, env, has_telegram, gist_filename, past_items,
                   known_items, max_items, new_items, items_by_channel, grp, pos,
                   delivered, writes, snap0, cause, report, committed, prevFailed>>
    /\ UNCHANGED <<bvars, fvars, gvars, lvars>>

\* main.py:210-211, dedupe.py:70-88: the gist is read.
GetPastItemsOk ==
    /\ pc = "read"
    /\ gist_filename' = "state.json"
    /\ past_items' = store
    /\ known_items' = store
    /\ snap0' = store
    /\ pc' = "select"
    /\ UNCHANGED <<store, run, env, has_telegram, recent_items, max_items,
                   new_items, items_by_channel, grp, pos, delivered, admin,
                   writes, cause, report, outcome, committed, prevFailed>>
    /\ UNCHANGED <<admin_failed, bvars, fvars, lvars>>
    /\ reads' = reads + 1
    /\ UNCHANGED patched

\* The read fails; a bug that goes on with an empty snapshot.
GetPastItemsFailContinues ==
    /\ pc = "read"
    /\ outcome' = "state_read_error"
    /\ pc' = "select"
    /\ UNCHANGED <<store, run, env, has_telegram, recent_items, gist_filename,
                   past_items, known_items, max_items, new_items,
                   items_by_channel, grp, pos, delivered, admin, writes, snap0,
                   cause, report, committed, prevFailed>>
    /\ UNCHANGED <<admin_failed, bvars, fvars, lvars>>
    /\ reads' = reads + 1
    /\ UNCHANGED patched

\* dedupe.py:80-87: the request or the decoding raises; nothing in main
\* catches it.
GetPastItemsFail ==
    /\ pc = "read"
    /\ outcome' = "state_read_error"
    /\ pc' = "done"
    /\ UNCHANGED <<store, run, env, has_telegram, recent_items, gist_filename,
                   past_items, known_items, max_items, new_items,
                   items_by_channel, grp, pos, delivered, admin, writes, snap0,
                   cause, report, committed, prevFailed>>
    /\ UNCHANGED <<admin_failed, bvars, fvars, lvars>>
    /\ reads' = reads + 1
    /\ UNCHANGED patched

\* main.py:212: selection; nothing in main catches what it raises.
Select ==
    /\ pc = "select"
    /\ LET r == select_new_items(recent_items, past_items, max_items)
       IN IF r.raised
          THEN /\ outcome' = "select_error"
               /\ pc' = "done"
               /\ UNCHANGED new_items
          ELSE /\ new_items' = r.sel
               /\ pc' = "selected"
               /\ UNCHANGED outcome
    /\ UNCHANGED <<store, run, env, has_telegram, recent_items, gist_filename,
                   past_items, known_items, max_items, items_by_channel, grp,
                   pos, delivered, admin, writes, snap0, cause, report,
                   committed, prevFailed>>
    /\ UNCHANGED <<admin_failed, bvars, fvars, gvars, lvars>>

\* The same without the early return for an empty selection.
CheckNewItemsNoEarlyReturn ==
    /\ pc = "selected"
    /\ UNCHANGED <<admin, admin_failed>>
    /\ outcome' = IF has_telegram THEN outcome ELSE "dry_run"
    /\ pc' = IF has_telegram THEN "resolve" ELSE "done"
    /\ UNCHANGED <<store, run, env, has_telegram, recent_items, gist_filename,
                   past_items, known_items, max_items, new_items,
                   items_by_channel, grp, pos, delivered, writes, snap0, cause,
                   report, committed, prevFailed>>
    /\ UNCHANGED <<bvars, fvars, gvars, lvars>>

\* The same without the test of has_telegram before the delivery.
CheckNewItemsIgnoresDryRun ==
    /\ pc = "selected"
    /\ IF new_items = <<>>
       THEN Notify(IF has_telegram THEN 1 ELSE 0, "done", "no_new_items")
       ELSE /\ UNCHANGED <<admin, admin_failed, outcome>>
            /\ pc' = "resolve"
    /\ UNCHANGED <<store, run, env, has_telegram, recent_items, gist_filename,
                   past_items, known_items, max_items, new_items,
                   items_by_channel, grp, pos, delivered, writes, snap0, cause,
                   report, committed, prevFailed>>
    /\ UNCHANGED <<bvars, fvars, gvars, lvars>>

\* main.py:214-219, 235, 266-267: without new items main notifies the admin
\* and returns; without Telegram it only prints what it would send.
CheckNewItems ==
    /\ pc = "selected"
    /\ IF new_items = <<>>
       THEN Notify(IF has_telegram THEN 1 ELSE 0, "done", "no_new_items")
       ELSE /\ UNCHANGED <<admin, admin_failed>>
            /\ outcome' = IF has_telegram THEN outcome ELSE "dry_run"
            /\ pc' = IF has_telegram THEN "resolve" ELSE "done"
    /\ UNCHANGED <<store, run, env, has_telegram, recent_items, gist_filename,
                   past_items, known_items, max_items, new_items,
                   items_by_channel, grp, pos, delivered, writes, snap0, cause,
                   report, committed, prevFailed>>
    /\ UNCHANGED <<bvars, fvars, gvars, lvars>>

\* main.py:237-248: channels are resolved and the items grouped.
GroupByChannel ==
    /\ pc = "resolve"
    /\ LET r == GroupLoop(env, recent_items, new_items, Len(new_items))
       IN /\ items_by_channel' = r.groups
          /\ Notify(r.skipped, IF r.groups = <<>> THEN "commit" ELSE "send", outcome)
    /\ grp' = 1
    /\ pos' = 1
    /\ UNCHANGED <<store, run, env, has_telegram, recent_items, gist_filename,
                   past_items, known_items, max_items, new_items, delivered,
                   writes, snap0, cause, report, committed, prevFailed>>
    /\ UNCHANGED <<bvars, fvars, gvars, lvars>>

\* The send loops move on to the next item, the next group, or the commit.
Advance ==
    IF pos < Len(items_by_channel[grp].items)
    THEN pos' = pos + 1 /\ grp' = grp /\ pc' = "send"
    ELSE IF grp < Len(items_by_channel)
         THEN pos' = 1 /\ grp' = grp + 1 /\ pc' = "send"
         ELSE pos' = pos /\ grp' = grp /\ pc' = "commit"

\* main.py:251-252, telegram_msg.py:72-79: Telegram accepts the message of
\* the current item.
SendItemOk ==
    /\ pc = "send"
    /\ delivered' = Append(delivered, [chat |-> items_by_channel[grp].chat,
                                       item |-> items_by_channel[grp].items[pos]])
    /\ Advance
    /\ UNCHANGED <<store, run, env, has_telegram, recent_items, gist_filename,
                   past_items, known_items, max_items, new_items,
                   items_by_channel, admin, writes, snap0, cause, report,
                   outcome, committed, prevFailed>>
    /\ UNCHANGED <<admin_failed, bvars, fvars, gvars, lvars>>

\* send_message_with_backoff raises; a bug that goes on to the commit.
SendItemFailSwallowed ==
    /\ pc = "send"
    /\ pc' = "commit"
    /\ UNCHANGED <<store, run, env, has_telegram, recent_items, gist_filename,
                   past_items, known_items, max_items, new_items,
                   items_by_channel, grp, pos, delivered, admin, writes, snap0,
                   cause, report, outcome, committed, prevFailed>>
    /\ UNCHANGED <<admin_failed, bvars, fvars, gvars, lvars>>

\* send_message_with_backoff raises; a bug that skips the item and sends on.
SendItemFailContinues ==
    /\ pc = "send"
    /\ cause' = "send"
    /\ Advance
    /\ UNCHANGED <<store, run, env, has_telegram, recent_items, gist_filename,
                   past_items, known_items, max_items, new_items,
                   items_by_channel, delivered, admin, writes, snap0, report,
                   outcome, committed, prevFailed>>
    /\ UNCHANGED <<admin_failed, bvars, fvars, gvars, lvars>>

\* telegram_msg.py:75-78, main.py:260: send_message_with_backoff raises,
\* send_items raises, control passes to the except clause.
SendItemFail ==
    /\ pc = "send"
    /\ cause' = "send"
    /\ pc' = "except"
    /\ UNCHANGED <<store, run, env, has_telegram, recent_items, gist_filename,
                   past_items, known_items, max_items, new_items,
                   items_by_channel, grp, pos, delivered, admin, writes, snap0,
                   report, outcome, committed, prevFailed>>
    /\ UNCHANGED <<admin_failed, bvars, fvars, gvars, lvars>>

\* main.py:255-257: titles are added to known_items.  known_items is a
\* shallow copy, so the lists of past_items grow with it.
CommitTitles ==
    /\ pc = "commit"
    /\ known_items' = AddTitles(known_items, recent_items, new_items, Len(new_items))
    /\ past_items' = [f \in DOMAIN past_items |-> known_items'[f]]
    /\ pc' = "write"
    /\ UNCHANGED <<store, run, env, has_telegram, recent_items, gist_filename,
                   max_items, new_items, items_by_channel, grp, pos, delivered,
                   admin, writes, snap0, cause, report, outcome, committed,
                   prevFailed>>
    /\ UNCHANGED <<admin_failed, bvars, fvars, gvars, lvars>>

\* The PATCH with a bug: only the feeds of the selected items are written.
UpdateStateGistOkSelectedFeeds ==
    /\ pc = "write"
    /\ IF known_items = EmptyDict
       THEN UNCHANGED <<store, writes, committed, patched>>
       ELSE /\ store' = [f \in { recent_items[new_items[k]].feed_url :
                                    k \in 1..Len(new_items) } |-> known_items[f]]
            /\ writes' = writes + 1
            /\ patched' = gist_filename
            /\ committed' = committed \cup Pairs(known_items)
    /\ outcome' = "sent"
    /\ pc' = "done"
    /\ UNCHANGED <<run, env, has_telegram, recent_items, gist_filename,
                   past_items, known_items, max_items, new_items,
                   items_by_channel, grp, pos, delivered, admin, snap0, cause,
                   report, prevFailed>>
    /\ UNCHANGED <<admin_failed, bvars, fvars, lvars>>
    /\ UNCHANGED reads

\* main.py:258-259, dedupe.py:90-111: no request for an empty dict;
\* otherwise the PATCH replaces the gist file's content.
UpdateStateGistOk ==
    /\ pc = "write"
    /\ IF known_items = EmptyDict
       THEN UNCHANGED <<store, writes, committed, patched>>
       ELSE /\ store' = known_items
            /\ writes' = writes + 1
            /\ patched' = gist_filename
            /\ committed' = committed \cup Pairs(known_items)
    /\ outcome' = "sent"
    /\ pc' = "done"
    /\ UNCHANGED <<run, env, has_telegram, recent_items, gist_filename,
                   past_items, known_items, max_items, new_items,
                   items_by_channel, grp, pos, delivered, admin, snap0, cause,
                   report, prevFailed>>
    /\ UNCHANGED <<admin_failed, bvars, fvars, lvars>>
    /\ UNCHANGED reads

\* The PATCH fails; a bug that issues it again.
UpdateStateGistFailRetried ==
    /\ pc = "write"
    /\ known_items /= EmptyDict
    /\ writes < 2
    /\ writes' = writes + 1
    /\ cause' = "write"
    /\ pc' = "write"
    /\ UNCHANGED <<store, run, env, has_telegram, recent_items, gist_filename,
                   past_items, known_items, max_items, new_items,
                   items_by_channel, grp, pos, delivered, admin, snap0, report,
                   outcome, committed, prevFailed>>
    /\ UNCHANGED <<admin_failed, bvars, fvars, lvars>>
    /\ patched' = gist_filename
    /\ UNCHANGED reads

\* dedupe.py:109-113, main.py:260: the PATCH fails, update_state_gist raises
\* RuntimeError, control passes to the same except clause.
UpdateStateGistFail ==
    /\ pc = "write"
    /\ known_items /= EmptyDict
    /\ writes' = writes + 1
    /\ cause' = "write"
    /\ pc' = "except"
    /\ UNCHANGED <<store, run, env, has_telegram, recent_items, gist_filename,
                   past_items, known_items, max_items, new_items,
                   items_by_channel, grp, pos, delivered, admin, snap0, report,
                   outcome, committed, prevFailed>>
    /\ UNCHANGED <<admin_failed, bvars, fvars, lvars>>
    /\ patched' = gist_filename
    /\ UNCHANGED reads

\* The except clause, with a bug that marks the selection as seen anyway.
ExceptHandlerMarksSeen ==
    /\ pc = "except"
    /\ report' = "Telegram send failure"
    /\ Notify(1, "done", "failed")
    /\ store' = AddTitles(known_items, recent_items, new_items, Len(new_items))
    /\ UNCHANGED <<run, env, has_telegram, recent_items, gist_filename,
                   past_items, known_items, max_items, new_items,
                   items_by_channel, grp, pos, delivered, writes, snap0, cause,
                   committed, prevFailed>>
    /\ UNCHANGED <<bvars, fvars, gvars, lvars>>

\* main.py:260-265: the except clause of the try block.
ExceptHandler ==
    /\ pc = "except"
    /\ report' = "Telegram send failure"
    /\ Notify(1, "done", "failed")
    /\ UNCHANGED <<store, run, env, has_telegram, recent_items, gist_filename,
                   past_items, known_items, max_items, new_items,
                   items_by_channel, grp, pos, delivered, writes, snap0, cause,
                   committed, prevFailed>>
    /\ UNCHANGED <<bvars, fvars, gvars, lvars>>

\* main returns (or the exception leaves it) and the process ends.  After a
\* delivery failure the next run may find the feeds as they were.
MainReturn ==
    /\ pc = "done"
    /\ pc' = "idle"
    /\ prevFailed' \in
         (IF outcome = "failed" /\ cause = "send"
          THEN {NoPrev, [items |-> recent_items, sel |-> new_items]}
          ELSE {NoPrev})
    /\ env' = MkEnv("", "", "", "")
    /\ has_telegram' = FALSE
    /\ recent_items' = <<>>
    /\ gist_filename' = ""
    /\ past_items' = EmptyDict
    /\ known_items' = EmptyDict
    /\ new_items' = <<>>
    /\ items_by_channel' = <<>>
    /\ grp' = 0
    /\ pos' = 0
    /\ delivered' = <<>>
    /\ admin' = 0
    /\ admin_failed' = 0
    /\ writes' = 0
    /\ snap0' = EmptyDict
    /\ cause' = "none"
    /\ report' = "none"
    /\ outcome' = "none"
    /\ UNCHANGED <<store, run, max_items, committed>>
    /\ UNCHANGED <<bvars, fvars, lvars>>
    /\ reads' = 0
    /\ patched' = ""

Next ==
    \/ MainStart
    \/ FetchAndFilter
    \/ GetPastItemsOk
    \/ GetPastItemsFail
    \/ Select
    \/ CheckNewItems
    \/ GroupByChannel
    \/ SendItemOk
    \/ SendItemFail
    \/ CommitTitles
    \/ UpdateStateGistOk
    \/ UpdateStateGistFail
    \/ ExceptHandler
    \/ MainReturn

Spec == Init /\ [][Next]_vars

(***************************************************************************)
(* select_new_items called on its own, for every input within the bounds.  *)
(***************************************************************************)
InitSelect ==
    /\ store = EmptyDict
    /\ run = 0
    /\ pc = "sel_call"
    /\ env = MkEnv("", "", "", "")
    /\ has_telegram = FALSE
    /\ recent_items \in SeqsUpTo(SelItems, MaxSelLen)
    /\ gist_filename = ""
    /\ past_items \in SelSnapshots
    /\ known_items = EmptyDict
    /\ max_items \in 0..MaxCap
    /\ new_items = <<>>
    /\ items_by_channel = <<>>
    /\ grp = 0
    /\ pos = 0
    /\ delivered = <<>>
    /\ admin = 0
    /\ admin_failed = 0
    /\ writes = 0
    /\ snap0 = EmptyDict
    /\ cause = "none"
    /\ report = "none"
    /\ outcome = "none"
    /\ committed = {}
    /\ prevFailed = NoPrev
    /\ NoSend
    /\ NoFilter
    /\ NoGistAccess
    /\ NoFetch

\* select_new_items(recent_items, past_items, max_items) returns or raises.
SelectCall ==
    /\ pc = "sel_call"
    /\ LET r == select_new_items(recent_items, past_items, max_items)
       IN /\ new_items' = r.sel
          /\ pc' = IF r.raised THEN "sel_raised" ELSE "sel_returned"
    /\ past_items' = PastAfterSelect(past_items,
                                     FeedOrder(recent_items, Len(recent_items)))
    /\ UNCHANGED <<store, run, env, has_telegram, recent_items, gist_filename,
                   known_items, max_items, items_by_channel, grp,
                   pos, delivered, admin, writes, snap0, cause, report, outcome,
                   committed, prevFailed>>
    /\ UNCHANGED <<admin_failed, bvars, fvars, gvars, lvars>>

NextSelect == SelectCall

SpecSelect == InitSelect /\ [][NextSelect]_vars

(***************************************************************************)
(* send_items called on its own (src/telegram_msg.py): msgs items, each    *)
(* sent by send_message_with_backoff with max_retries retries; every       *)
(* requests.post is answered by 2xx, by 429 with or without a Retry-After  *)
(* header, by another error status, or raises a RequestException.          *)
(***************************************************************************)

\* The Retry-After header of a 429 response: absent, or a number of seconds.
NoHeader == [present |-> FALSE, secs |-> 0]

RetryAfterHeaders == { NoHeader, [present |-> TRUE, secs |-> 30] }

RECURSIVE Pow2(_)
Pow2(n) == IF n = 0 THEN 1 ELSE 2 * Pow2(n - 1)

BackoffDelayLinear(rc) == 60 * (rc + 1)

\* telegram_msg.py:30: 60 * (2 ** retry_count).
BackoffDelay(rc) == 60 * Pow2(rc)

RetryAfterIgnoresHeader(hdr, rc) == BackoffDelay(rc)

\* telegram_msg.py:26-30: the header's value if there is one.
RetryAfter(hdr, rc) == IF hdr.present THEN hdr.secs ELSE BackoffDelay(rc)

RetriesRemainOffByOne(rc, m) == rc <= m

\* telegram_msg.py:32
RetriesRemain(rc, m) == rc < m

LoopContinuesStrict(rc, m) == rc < m

\* telegram_msg.py:19
LoopContinues(rc, m) == rc <= m

InitBackoff ==
    /\ store = EmptyDict
    /\ run = 0
    /\ env = MkEnv("", "", "", "")
    /\ has_telegram = FALSE
    /\ recent_items = <<>>
    /\ gist_filename = ""
    /\ past_items = EmptyDict
    /\ known_items = EmptyDict
    /\ max_items = MAX_ITEMS_PER_RUN
    /\ new_items = <<>>
    /\ items_by_channel = <<>>
    /\ grp = 0
    /\ pos = 0
    /\ delivered = <<>>
    /\ admin = 0
    /\ admin_failed = 0
    /\ writes = 0
    /\ snap0 = EmptyDict
    /\ cause = "none"
    /\ report = "none"
    /\ outcome = "none"
    /\ committed = {}
    /\ prevFailed = NoPrev
    /\ msgs \in 0..MaxMsgs
    /\ max_retries \in 0..MaxRetries
    /\ msg = IF msgs = 0 THEN 0 ELSE 1
    /\ pc = IF msgs = 0 THEN "items_sent" ELSE "post"
    /\ retry_count = 0
    /\ attempts = 0
    /\ total_attempts = 0
    /\ sleeps = <<>>
    /\ pauses = 0
    /\ failure = "none"
    /\ NoFilter
    /\ NoGistAccess
    /\ NoFetch

\* telegram_msg.py:21-44: the post is answered by a success status;
\* send_message_with_backoff returns.
PostAccepted ==
    /\ pc = "post"
    /\ attempts' = attempts + 1
    /\ total_attempts' = total_attempts + 1
    /\ delivered' = Append(delivered, [chat |-> "chat", item |-> msg])
    /\ pc' = "pause"
    /\ UNCHANGED <<msgs, msg, max_retries, retry_count, sleeps, pauses, failure>>
    /\ UNCHANGED <<mvars, fvars, gvars, lvars>>

\* telegram_msg.py:24-38: the post is answered by 429.
PostRateLimited ==
    /\ pc = "post"
    /\ attempts' = attempts + 1
    /\ total_attempts' = total_attempts + 1
    /\ \E hdr \in RetryAfterHeaders :
        IF RetriesRemain(retry_count, max_retries)
        THEN /\ sleeps' = Append(sleeps, [secs |-> RetryAfter(hdr, retry_count),
                                          header |-> hdr])
             /\ retry_count' = retry_count + 1
             /\ IF LoopContinues(retry_count + 1, max_retries)
                THEN pc' = "post" /\ failure' = failure
                ELSE pc' = "raised" /\ failure' = "retries_exhausted"
        ELSE /\ failure' = "rate_limit"
             /\ pc' = "raised"
             /\ UNCHANGED <<sleeps, retry_count>>
    /\ UNCHANGED <<msgs, msg, max_retries, pauses, delivered>>
    /\ UNCHANGED <<mvars, fvars, gvars, lvars>>

PostNetworkErrorRetried ==
    /\ pc = "post"
    /\ retry_count < max_retries
    /\ attempts' = attempts + 1
    /\ total_attempts' = total_attempts + 1
    /\ failure' = "network"
    /\ retry_count' = retry_count + 1
    /\ sleeps' = Append(sleeps, [secs |-> BackoffDelay(retry_count),
                                 header |-> NoHeader])
    /\ pc' = "post"
    /\ UNCHANGED <<msgs, msg, max_retries, pauses, delivered>>
    /\ UNCHANGED <<mvars, fvars, gvars, lvars>>

\* telegram_msg.py:39-42, 77-78: the post is answered by another error
\* status; send_message_with_backoff raises, and so does send_items.
PostHttpError ==
    /\ pc = "post"
    /\ attempts' = attempts + 1
    /\ total_attempts' = total_attempts + 1
    /\ failure' = "http"
    /\ pc' = "raised"
    /\ UNCHANGED <<msgs, msg, max_retries, retry_count, sleeps, pauses,
                   delivered>>
    /\ UNCHANGED <<mvars, fvars, gvars, lvars>>

\* telegram_msg.py:45-47, 77-78: requests.post raises a RequestException;
\* send_message_with_backoff raises, and so does send_items.
PostNetworkError ==
    /\ pc = "post"
    /\ attempts' = attempts + 1
    /\ total_attempts' = total_attempts + 1
    /\ failure' = "network"
    /\ pc' = "raised"
    /\ UNCHANGED <<msgs, msg, max_retries, retry_count, sleeps, pauses,
                   delivered>>
    /\ UNCHANGED <<mvars, fvars, gvars, lvars>>

\* send_items with one retry count for the whole list: the next message
\* starts with the retries and sleeps of the one before.
PauseKeepsRetryCount ==
    /\ pc = "pause"
    /\ pauses' = pauses + 1
    /\ IF msg < msgs
       THEN /\ msg' = msg + 1
            /\ attempts' = 0
            /\ pc' = "post"
            /\ UNCHANGED <<retry_count, sleeps>>
       ELSE /\ pc' = "items_sent"
            /\ UNCHANGED <<msg, retry_count, attempts, sleeps>>
    /\ UNCHANGED <<msgs, max_retries, total_attempts, failure, delivered>>
    /\ UNCHANGED <<mvars, fvars, gvars, lvars>>

\* send_items with a pause between messages only: none after the last item.
PauseNotAfterLast ==
    /\ pc = "pause"
    /\ IF msg < msgs
       THEN /\ pauses' = pauses + 1
            /\ msg' = msg + 1
            /\ retry_count' = 0
            /\ attempts' = 0
            /\ sleeps' = <<>>
            /\ pc' = "post"
       ELSE /\ pc' = "items_sent"
            /\ UNCHANGED <<pauses, msg, retry_count, attempts, sleeps>>
    /\ UNCHANGED <<msgs, max_retries, total_attempts, failure, delivered>>
    /\ UNCHANGED <<mvars, fvars, gvars, lvars>>

\* telegram_msg.py:72-79: after a delivered item send_items sleeps
\* pause_sec, then takes the next item or returns.
Pause ==
    /\ pc = "pause"
    /\ pauses' = pauses + 1
    /\ IF msg < msgs
       THEN /\ msg' = msg + 1
            /\ retry_count' = 0
            /\ attempts' = 0
            /\ sleeps' = <<>>
            /\ pc' = "post"
       ELSE /\ pc' = "items_sent"
            /\ UNCHANGED <<msg, retry_count, attempts, sleeps>>
    /\ UNCHANGED <<msgs, max_retries, total_attempts, failure, delivered>>
    /\ UNCHANGED <<mvars, fvars, gvars, lvars>>

NextBackoff ==
    \/ PostAccepted
    \/ PostRateLimited
    \/ PostHttpError
    \/ PostNetworkError
    \/ Pause

SpecBackoff == InitBackoff /\ [][NextBackoff]_vars

\* The same with the process running on: requests.post returns or raises
\* within its timeout and time.sleep returns.
SpecBackoffLive == InitBackoff /\ [][NextBackoff]_vars /\ WF_vars(NextBackoff)

(***************************************************************************)
(* update_state_gist called on its own (src/dedupe.py:90-113), for every   *)
(* gist content and every updated_data within the bounds.                  *)
(***************************************************************************)

\* Feed -> titles mappings over two feeds.
UpdateDicts ==
    UNION { [D -> { <<"X">>, <<"X", "Y">> }] : D \in SUBSET {"feedA", "feedB"} }

InitUpdate ==
    /\ store \in UpdateDicts
    /\ snap0 = store
    /\ past_items = store
    /\ known_items \in UpdateDicts
    /\ gist_filename = "state.json"
    /\ pc = "write"
    /\ run = 0
    /\ env = MkEnv("", "g", "", "")
    /\ has_telegram = FALSE
    /\ recent_items = <<>>
    /\ max_items = MAX_ITEMS_PER_RUN
    /\ new_items = <<>>
    /\ items_by_channel = <<>>
    /\ grp = 0
    /\ pos = 0
    /\ delivered = <<>>
    /\ admin = 0
    /\ admin_failed = 0
    /\ writes = 0
    /\ cause = "none"
    /\ report = "none"
    /\ outcome = "none"
    /\ committed = {}
    /\ prevFailed = NoPrev
    /\ NoSend
    /\ NoFilter
    /\ NoGistAccess
    /\ NoFetch

NextUpdate ==
    \/ UpdateStateGistOk
    \/ UpdateStateGistFail

SpecUpdate == InitUpdate /\ [][NextUpdate]_vars

(***************************************************************************)
(* filter_recent_items called on its own (src/dedupe.py:9-29).  Time is    *)
(* counted in seconds; published is a whole number of seconds              *)
(* (parse.py:12-15).                                                       *)
(***************************************************************************)

\* The clock reading of the first is_recent call.
Now0 == 100 * SecondsPerDay

\* Inputs: no date, dates around the cutoff of the first call, and now.
AgeItems(days) ==
    { Item("feedA", "X", "id1", "l1", p, "TG_A") :
        p \in { 0, Now0 - days * SecondsPerDay - 1, Now0 - days * SecondsPerDay,
                Now0 - days * SecondsPerDay + 1, Now0 } }

is_recent_exclusive(item, days, now) ==
    IF item.published = 0 THEN TRUE
    ELSE item.published > now - days * SecondsPerDay

\* dedupe.py:9-19
is_recent(item, days, now) ==
    IF item.published = 0 THEN TRUE
    ELSE item.published >= now - days * SecondsPerDay

\* dedupe.py:29: the positions of items[1..k] that is_recent accepts, each
\* with the clock reading of its own call.
RECURSIVE filter_recent_items(_, _, _, _)
filter_recent_items(items, days, nows, k) ==
    IF k = 0 THEN <<>>
    ELSE LET before == filter_recent_items(items, days, nows, k - 1)
         IN IF is_recent(items[k], days, nows[k])
            THEN Append(before, k)
            ELSE before

\* The readings of a clock that starts at Now0 and between two calls stands
\* still or moves on by a second.
RECURSIVE Readings(_)
Readings(n) ==
    IF n = 0 THEN { <<>> }
    ELSE IF n = 1 THEN { <<Now0>> }
    ELSE { Append(r, r[n - 1] + d) : r \in Readings(n - 1), d \in {0, 1} }

InitRecent ==
    /\ max_age_days \in {1, MAX_ITEM_AGE_DAYS}
    /\ recent_items \in SeqsUpTo(AgeItems(max_age_days), MaxAgeLen)
    /\ clock = <<>>
    /\ pc = "recent_call"
    /\ store = EmptyDict
    /\ run = 0
    /\ env = MkEnv("", "", "", "")
    /\ has_telegram = FALSE
    /\ gist_filename = ""
    /\ past_items = EmptyDict
    /\ known_items = EmptyDict
    /\ max_items = MAX_ITEMS_PER_RUN
    /\ new_items = <<>>
    /\ items_by_channel = <<>>
    /\ grp = 0
    /\ pos = 0
    /\ delivered = <<>>
    /\ admin = 0
    /\ admin_failed = 0
    /\ writes = 0
    /\ snap0 = EmptyDict
    /\ cause = "none"
    /\ report = "none"
    /\ outcome = "none"
    /\ committed = {}
    /\ prevFailed = NoPrev
    /\ NoSend
    /\ NoGistAccess
    /\ NoFetch

\* filter_recent_items(recent_items, max_age_days) returns the kept items
\* (new_items holds their positions).
FilterRecentCall ==
    /\ pc = "recent_call"
    /\ \E nows \in Readings(Len(recent_items)) :
        /\ clock' = nows
        /\ new_items' = filter_recent_items(recent_items, max_age_days, nows,
                                            Len(recent_items))
    /\ pc' = "recent_returned"
    /\ UNCHANGED <<store, run, env, has_telegram, recent_items, gist_filename,
                   past_items, known_items, max_items, items_by_channel, grp,
                   pos, delivered, admin, admin_failed, writes, snap0, cause,
                   report, outcome, committed, prevFailed, max_age_days>>
    /\ UNCHANGED <<bvars, gvars, lvars>>

NextRecent == FilterRecentCall

SpecRecent == InitRecent /\ [][NextRecent]_vars

(***************************************************************************)
(* apply_rules called on its own (src/main.py:14-41).  A string is a       *)
(* sequence of characters; a value that may be None or missing is a record *)
(* [present, v].                                                           *)
(***************************************************************************)

Absent == [present |-> FALSE, v |-> <<>>]

Some(x) == [present |-> TRUE, v |-> x]

\* str.lower() on one character and on a string.
LowerChar(c) == IF c = "A" THEN "a" ELSE IF c = "B" THEN "b" ELSE c

Lower(str) == [i \in 1..Len(str) |-> LowerChar(str[i])]

\* kw in text
Contains(text, kw) ==
    \E i \in 0..(Len(text) - Len(kw)) : SubSeq(text, i + 1, i + Len(kw)) = kw

\* main.py:25, 30-31: (item.get("rules", {}) or {}).get(name)
RuleList(item, name) == IF item.rules.present THEN item.rules.v[name] ELSE Absent

\* main.py:26-28
RuleText(item) ==
    LET title == Lower(IF item.title.present THEN item.title.v ELSE <<>>)
        summary == Lower(IF item.summary.present THEN item.summary.v ELSE <<>>)
    IN title \o <<" ">> \o summary

\* main.py:33, 37: the truth value of a list that may be None
Truthy(l) == l.present /\ l.v /= <<>>

\* main.py:35, 38: any(str(tok).lower() in text for tok in l)
AnyIn(l, text) == \E j \in 1..Len(l.v) : Contains(text, Lower(l.v[j]))

KeepsAllowWins(item) ==
    LET text == RuleText(item)
        allow == RuleList(item, "allow")
        deny == RuleList(item, "deny")
    IN IF Truthy(allow) THEN AnyIn(allow, text)
       ELSE ~(Truthy(deny) /\ AnyIn(deny, text))

\* main.py:25-40: whether the loop body appends the item.
Keeps(item) ==
    LET text == RuleText(item)
        allow == RuleList(item, "allow")
        deny == RuleList(item, "deny")
    IN IF Truthy(allow) /\ ~AnyIn(allow, text) THEN FALSE
       ELSE IF Truthy(deny) /\ AnyIn(deny, text) THEN FALSE
       ELSE TRUE

\* main.py:23-41: the positions of items[1..k] that are appended.
RECURSIVE apply_rules(_, _)
apply_rules(items, k) ==
    IF k = 0 THEN <<>>
    ELSE IF Keeps(items[k]) THEN Append(apply_rules(items, k - 1), k)
    ELSE apply_rules(items, k - 1)

\* The rules of a feed: none, an empty mapping's lists, an empty allow
\* list, allow only, deny only, both.
RuleSets ==
    { Absent,
      Some([allow |-> Absent, deny |-> Absent]),
      Some([allow |-> Some(<<>>), deny |-> Some(<< <<"b">> >>)]),
      Some([allow |-> Some(<< <<"A">> >>), deny |-> Absent]),
      Some([allow |-> Some(<< <<"a">>, <<"b", " ", "a">> >>),
            deny |-> Some(<< <<"B">> >>)]) }

RuleItems ==
    { [title |-> t, summary |-> sm, rules |-> rs] :
        t \in { Some(<<"a">>), Some(<<"A", "b">>) },
        sm \in { Absent, Some(<<"A">>), Some(<<"b">>) },
        rs \in RuleSets }

InitRules ==
    /\ recent_items \in SeqsUpTo(RuleItems, MaxRuleLen)
    /\ pc = "rules_call"
    /\ store = EmptyDict
    /\ run = 0
    /\ env = MkEnv("", "", "", "")
    /\ has_telegram = FALSE
    /\ gist_filename = ""
    /\ past_items = EmptyDict
    /\ known_items = EmptyDict
    /\ max_items = MAX_ITEMS_PER_RUN
    /\ new_items = <<>>
    /\ items_by_channel = <<>>
    /\ grp = 0
    /\ pos = 0
    /\ delivered = <<>>
    /\ admin = 0
    /\ admin_failed = 0
    /\ writes = 0
    /\ snap0 = EmptyDict
    /\ cause = "none"
    /\ report = "none"
    /\ outcome = "none"
    /\ committed = {}
    /\ prevFailed = NoPrev
    /\ NoSend
    /\ NoFilter
    /\ NoGistAccess
    /\ NoFetch

\* apply_rules(recent_items) returns the kept items (new_items holds their
\* positions).
ApplyRulesCall ==
    /\ pc = "rules_call"
    /\ new_items' = apply_rules(recent_items, Len(recent_items))
    /\ pc' = "rules_returned"
    /\ UNCHANGED <<store, run, env, has_telegram, recent_items, gist_filename,
                   past_items, known_items, max_items, items_by_channel, grp,
                   pos, delivered, admin, admin_failed, writes, snap0, cause,
                   report, outcome, committed, prevFailed>>
    /\ UNCHANGED <<bvars, fvars, gvars, lvars>>

NextRules == ApplyRulesCall

SpecRules == InitRules /\ [][NextRules]_vars

(***************************************************************************)
(* select_new_items, filter_recent_items and apply_rules, each called on   *)
(* its own with the inputs of its specification above.                     *)
(***************************************************************************)
InitCalls == InitSelect \/ InitRecent \/ InitRules

NextCalls ==
    \/ SelectCall
    \/ FilterRecentCall
    \/ ApplyRulesCall

SpecCalls == InitCalls /\ [][NextCalls]_vars

(***************************************************************************)
(* One run of main with its fetch loop step by step (src/main.py:153-207): *)
(* each configured feed is fetched and normalised, or its fetch raises;    *)
(* then the rules and the age filter are applied to what was collected.    *)
(***************************************************************************)

\* main.py:153: what load_feeds returns, two feeds of two topics, no rules.
Feeds ==
    << [feed_url |-> "feedA", channel_id |-> "TG_A"],
       [feed_url |-> "feedB", channel_id |-> "TG_B"] >>

\* main.py:160-167: the items normalize_feed can give for a feed, with the
\* channel_id the loop attaches: one a day old, one of this moment, one a
\* day older than the age limit.
FeedItems(cfg) ==
    { Item(cfg.feed_url, "X", "id1", "l1", Now0 - SecondsPerDay, cfg.channel_id),
      Item(cfg.feed_url, "Y", "id2", "l2", Now0, cfg.channel_id),
      Item(cfg.feed_url, "Z", "id3", "l3",
           Now0 - (MAX_ITEM_AGE_DAYS + 1) * SecondsPerDay, cfg.channel_id) }

\* The loop has taken every feed.
FetchLoopDone == feed_idx = Len(Feeds)

\* The variables the fetch loop and the filters leave alone.
FetchFrame ==
    /\ UNCHANGED <<store, run, env, has_telegram, gist_filename, past_items,
                   known_items, max_items, new_items, items_by_channel, grp, pos,
                   delivered, writes, snap0, cause, report, committed, prevFailed>>
    /\ UNCHANGED <<bvars, gvars>>

\* main.py:159-170: the feed is fetched and normalised; its items are
\* appended to all_items.
FetchFeedOk ==
    /\ pc = "fetch"
    /\ ~FetchLoopDone
    /\ LET cfg == Feeds[feed_idx + 1]
       IN \E items \in SeqsUpTo(FeedItems(cfg), MaxLen) :
            /\ Len(all_items) + Len(items) <= MaxLen
            /\ all_items' = all_items \o items
            /\ fetch_log' = Append(fetch_log, [feed_url |-> cfg.feed_url,
                                               ok |-> TRUE, items |-> items])
    /\ feed_idx' = feed_idx + 1
    /\ UNCHANGED <<pc, admin, admin_failed, outcome, recent_items>>
    /\ UNCHANGED fvars
    /\ FetchFrame

\* The fetch of a feed raises; a bug that ends the run there.
FetchFeedFailStopsRun ==
    /\ pc = "fetch"
    /\ ~FetchLoopDone
    /\ fetch_log' = Append(fetch_log, [feed_url |-> Feeds[feed_idx + 1].feed_url,
                                       ok |-> FALSE, items |-> <<>>])
    /\ feed_idx' = feed_idx + 1
    /\ Notify(IF has_telegram THEN 1 ELSE 0, "done", "fetch_error")
    /\ UNCHANGED <<all_items, recent_items>>
    /\ UNCHANGED fvars
    /\ FetchFrame

\* main.py:171-182: fetch_all or normalize_feed raises, before line 169 has
\* added anything; the admin is told when Telegram is configured and the
\* loop goes on with the next feed.
FetchFeedFail ==
    /\ pc = "fetch"
    /\ ~FetchLoopDone
    /\ fetch_log' = Append(fetch_log, [feed_url |-> Feeds[feed_idx + 1].feed_url,
                                       ok |-> FALSE, items |-> <<>>])
    /\ feed_idx' = feed_idx + 1
    /\ Notify(IF has_telegram THEN 1 ELSE 0, "fetch", outcome)
    /\ UNCHANGED <<all_items, recent_items>>
    /\ UNCHANGED fvars
    /\ FetchFrame

\* An item as apply_rules reads it: its title, no summary, and the rules of
\* its feed (main.py:166), which here has none.
RulesView(item) ==
    [title |-> Some(<<item.title>>), summary |-> Absent,
     rules |-> Some([allow |-> Absent, deny |-> Absent])]

\* main.py:192: apply_rules(all_items)
AfterRules(items) ==
    ItemsAt(items, apply_rules([k \in 1..Len(items) |-> RulesView(items[k])],
                               Len(items)))

\* main.py:184-207: nothing fetched ends the run; otherwise the rules and
\* the age filter are applied, and nothing recent ends the run after an
\* admin notification.
FilterFetched ==
    /\ pc = "fetch"
    /\ FetchLoopDone
    /\ IF all_items = <<>>
       THEN /\ pc' = "done"
            /\ outcome' = "no_items_fetched"
            /\ UNCHANGED <<admin, admin_failed, recent_items, fvars>>
       ELSE LET after_rules == AfterRules(all_items)
                nows == [k \in 1..Len(after_rules) |-> Now0]
                recent == ItemsAt(after_rules,
                                  filter_recent_items(after_rules, MAX_ITEM_AGE_DAYS,
                                                      nows, Len(after_rules)))
            IN /\ max_age_days' = MAX_ITEM_AGE_DAYS
               /\ clock' = nows
               /\ recent_items' = recent
               /\ IF recent = <<>>
                  THEN Notify(IF has_telegram THEN 1 ELSE 0, "done",
                              "no_recent_items")
                  ELSE /\ pc' = "read"
                       /\ UNCHANGED <<admin, admin_failed, outcome>>
    /\ UNCHANGED lvars
    /\ FetchFrame

NextRun ==
    \/ MainStart
    \/ FetchFeedOk
    \/ FetchFeedFail
    \/ FilterFetched
    \/ GetPastItemsOk
    \/ GetPastItemsFail
    \/ Select
    \/ CheckNewItems
    \/ GroupByChannel
    \/ SendItemOk
    \/ SendItemFail
    \/ CommitTitles
    \/ UpdateStateGistOk
    \/ UpdateStateGistFail
    \/ ExceptHandler

SpecRun == Init /\ [][NextRun]_vars

(***************************************************************************)
(* Properties of main, checked under Spec.                                 *)
(***************************************************************************)

\* The messages the send loops deliver when nothing fails, in order.
RECURSIVE GroupMessages(_, _)
GroupMessages(groups, g) ==
    IF g = 0 THEN <<>>
    ELSE GroupMessages(groups, g - 1) \o
         [k \in 1..Len(groups[g].items) |->
            [chat |-> groups[g].chat, item |-> groups[g].items[k]]]

\* The (feed_url, title) pair of the k-th selected item.
SelPair(k) ==
    <<recent_items[new_items[k]].feed_url, recent_items[new_items[k]].title>>

\* The pairs of the items Telegram accepted in this run.
DeliveredPairs == { SelPair(delivered[d].item) : d \in 1..Len(delivered) }

\* The send loops of main.py:251-252 ended without raising.
DeliverySucceeded == pc \in {"commit", "write"} \/ cause = "write" \/ outcome = "sent"

\* select_new_items has been called in the current run.
SelectionDone ==
    \/ pc \in {"selected", "resolve", "send", "commit", "write", "except"}
    \/ pc = "done" /\ outcome \in {"select_error", "no_new_items", "dry_run",
                                   "sent", "failed"}

\* C1: a write to the gist is issued only after every channel group was sent
\* in full without a send raising; when a send raises, no write is issued
\* and the gist holds what the run read at its start.
C1_WriteOnlyAfterFullDelivery ==
    /\ writes > 0 =>
         /\ cause /= "send"
         /\ delivered = GroupMessages(items_by_channel, Len(items_by_channel))
    /\ cause = "send" => writes = 0 /\ store = snap0

C1_Witness ==
    /\ pc = "done"
    /\ cause = "send"
    /\ Len(new_items) = 3
    /\ Len(delivered) = 2
    /\ snap0 /= EmptyDict

\* C2: every title the commit adds to the snapshot (in known_items, and in
\* the gist once written) is the title of an item Telegram accepted in this
\* run.
C2_CommittedTitlesWereDelivered ==
    gist_filename /= "" =>
        /\ Pairs(known_items) \ Pairs(snap0) \subseteq DeliveredPairs
        /\ Pairs(store) \ Pairs(snap0) \subseteq DeliveredPairs

C2_Witness ==
    /\ pc = "done"
    /\ outcome = "sent"
    /\ Cardinality(Pairs(store) \ Pairs(snap0)) >= 2
    /\ \E k \in 1..Len(new_items) : env[recent_items[new_items[k]].channel_id] = ""

\* C3: when the send loops end without raising, every selected item was
\* accepted exactly once, by the chat its channel reference resolves to.
C3_SuccessDeliversEachOnce ==
    DeliverySucceeded =>
        \A k \in 1..Len(new_items) :
            /\ Cardinality({ d \in 1..Len(delivered) : delivered[d].item = k }) = 1
            /\ \A d \in 1..Len(delivered) :
                 delivered[d].item = k =>
                    delivered[d].chat =
                        Resolve(env, recent_items[new_items[k]].channel_id)

C3_Witness ==
    /\ DeliverySucceeded
    /\ Len(new_items) = 3
    /\ Len(items_by_channel) = 2

\* C4: in a run that follows a run whose delivery failed, and that is given
\* the same candidates, the selection is the failed run's selection.
C4_FailedRunIsReselected ==
    (prevFailed /= NoPrev /\ SelectionDone) =>
        /\ recent_items = prevFailed.items
        /\ new_items = prevFailed.sel
        /\ outcome /= "select_error"

C4_Witness ==
    /\ prevFailed /= NoPrev
    /\ pc = "send"
    /\ Len(delivered) >= 1
    /\ Len(new_items) >= 2

\* C5: no run selects (or delivers) an item whose (feed_url, title) pair an
\* earlier run wrote to the gist.
C5_CommittedNeverReselected ==
    (\/ pc \in {"selected", "resolve", "send", "commit", "write", "except"}
     \/ pc = "done" /\ outcome \in {"dry_run", "failed"}) =>
        /\ \A k \in 1..Len(new_items) : SelPair(k) \notin committed
        /\ DeliveredPairs \cap committed = {}

C5_Witness ==
    /\ run = 2
    /\ pc = "send"
    /\ Len(delivered) >= 1
    /\ \E k \in 1..Len(recent_items) :
         <<recent_items[k].feed_url, recent_items[k].title>> \in committed

\* C6: when the write to the gist fails, what the run reports is not the
\* report of a delivery failure.
C6_WriteFailureReportedDistinctly ==
    (pc = "done" /\ cause = "write") => report /= "Telegram send failure"

(***************************************************************************)
(* Properties of select_new_items, checked under SpecSelect.               *)
(***************************************************************************)

\* The fingerprint of an item: its id, else its link, else (title, link).
Fingerprint(item) ==
    IF item.id /= "None" THEN <<item.id>>
    ELSE IF item.link /= "None" THEN <<item.link>>
    ELSE <<item.title, item.link>>

SelectEnded == pc \in {"sel_returned", "sel_raised"}

\* The input positions whose title is not in the snapshot for their feed.
Eligible ==
    { i \in 1..Len(recent_items) :
        ~InList(recent_items[i].title, Get(past_items, recent_items[i].feed_url)) }

\* C7: no selected item's (feed_url, title) is in the snapshot, and every
\* input item whose title is not in the snapshot for its feed is selected
\* unless the cap was reached.
C7_SnapshotExclusion ==
    SelectEnded =>
        /\ \A k \in 1..Len(new_items) : new_items[k] \in Eligible
        /\ \A i \in Eligible : InList(i, new_items) \/ Len(new_items) >= max_items

\* C8: select_new_items never returns more than max_items items.
C8_AtMostMaxItems ==
    SelectEnded => Len(new_items) <= max_items

C8_Witness ==
    /\ pc = "sel_returned"
    /\ max_items = 2
    /\ Len(new_items) = 2
    /\ Cardinality(Eligible) = 3

\* C9: with at least max_items distinct candidates that are not in the
\* snapshot, select_new_items returns exactly max_items items.
C9_ExactlyMaxItems ==
    (SelectEnded /\
     Cardinality({ Fingerprint(recent_items[i]) : i \in Eligible }) >= max_items) =>
        pc = "sel_returned" /\ Len(new_items) = max_items

\* C10: no two items of one result have the same fingerprint.
C10_NoSharedFingerprint ==
    pc = "sel_returned" =>
        \A j, k \in 1..Len(new_items) :
            j /= k => Fingerprint(recent_items[new_items[j]]) /=
                      Fingerprint(recent_items[new_items[k]])

\* The position at which feed f first appears in the input.
FirstSeen(f) ==
    CHOOSE i \in 1..Len(recent_items) :
        /\ recent_items[i].feed_url = f
        /\ \A h \in 1..(i - 1) : recent_items[h].feed_url /= f

\* The feed of the input item at position i.
FeedAt(i) == recent_items[i].feed_url

\* C11: in the result the items of a feed seen earlier in the input come
\* before the items of a feed seen later, and a feed contributes an item
\* only if every eligible item of every feed seen earlier was selected.
C11_FeedsDrainedInFirstSeenOrder ==
    pc = "sel_returned" =>
        /\ \A j, k \in 1..Len(new_items) :
             j < k => FirstSeen(FeedAt(new_items[j])) <= FirstSeen(FeedAt(new_items[k]))
        /\ \A k \in 1..Len(new_items) : \A i \in Eligible :
             FirstSeen(FeedAt(i)) < FirstSeen(FeedAt(new_items[k])) =>
                InList(i, new_items)

C11_Witness ==
    /\ pc = "sel_returned"
    /\ max_items = 2
    /\ Len(recent_items) = 3
    /\ Eligible = {1, 2, 3}
    /\ FeedAt(1) = "feedA" /\ FeedAt(2) = "feedB" /\ FeedAt(3) = "feedA"
    /\ Len(new_items) = 2
    /\ \A k \in 1..Len(new_items) : FeedAt(new_items[k]) = "feedA"

\* C12: select_new_items returns a result for every input; it never raises.
C12_SelectNeverRaises ==
    pc /= "sel_raised"

(***************************************************************************)
(* Properties of send_message_with_backoff, checked under SpecBackoff.     *)
(***************************************************************************)

\* C13: a message whose every attempt is answered by 429 gets exactly
\* max_retries + 1 attempts and max_retries sleeps, none after the last
\* attempt, and then the call raises; whatever the answers, the call never
\* makes more than max_retries retries.
C13_RetriesBounded ==
    /\ retry_count <= max_retries
    /\ Len(sleeps) = retry_count
    /\ pc = "post" => attempts = retry_count
    /\ failure = "rate_limit" =>
          /\ pc = "raised"
          /\ attempts = max_retries + 1
          /\ Len(sleeps) = max_retries

C13_Witness ==
    /\ failure = "rate_limit"
    /\ max_retries = 3
    /\ attempts = 4
    /\ Len(sleeps) = 3

\* C14: a 429 answer with a Retry-After of h seconds, received while retries
\* remain, is followed by exactly one sleep, of h seconds, before the next
\* attempt, whatever the retry count.
C14_HintedSleepIsTheHint ==
    /\ \A i \in 1..Len(sleeps) :
          sleeps[i].header.present => sleeps[i].secs = sleeps[i].header.secs
    /\ pc = "post" => Len(sleeps) = attempts
    /\ pc \in {"pause", "raised"} => Len(sleeps) = attempts - 1

C14_Witness ==
    /\ pc = "pause"
    /\ attempts = 3
    /\ Len(sleeps) = 2
    /\ ~sleeps[1].header.present
    /\ sleeps[2].header = [present |-> TRUE, secs |-> 30]
    /\ sleeps[2].secs = 30

\* C15: without a Retry-After the sleep before retry k + 1 is 60 * 2^k
\* seconds, so of two successive sleeps without a header the second is
\* twice the first.
C15_UnhintedSleepDoubles ==
    /\ \A i \in 1..Len(sleeps) :
          ~sleeps[i].header.present => sleeps[i].secs = 60 * Pow2(i - 1)
    /\ \A i \in 1..(Len(sleeps) - 1) :
          (~sleeps[i].header.present /\ ~sleeps[i + 1].header.present) =>
             /\ sleeps[i + 1].secs = 2 * sleeps[i].secs
             /\ sleeps[i + 1].secs > sleeps[i].secs

C15_Witness ==
    /\ Len(sleeps) = 3
    /\ \A i \in 1..3 : ~sleeps[i].header.present
    /\ sleeps[1].secs = 60
    /\ sleeps[2].secs = 120
    /\ sleeps[3].secs = 240

\* C16: an attempt that ends in an error status other than 429, or in a
\* network error, is the last one of the call: the call raises at once,
\* without a sleep or a retry, however many retries remain.
C16_OtherFailuresNotRetried ==
    [][ /\ (failure = "none" /\ failure' \in {"http", "network"}) =>
              /\ attempts' = attempts + 1
              /\ sleeps' = sleeps
              /\ retry_count' = retry_count
              /\ pc' = "raised"
        /\ failure \in {"http", "network"} =>
              /\ total_attempts' = total_attempts
              /\ sleeps' = sleeps
              /\ pauses' = pauses ]_vars

C16_Witness ==
    /\ failure = "network"
    /\ pc = "raised"
    /\ max_retries = 3
    /\ retry_count = 1
    /\ attempts = 2
    /\ Len(sleeps) = 1

(***************************************************************************)
(* Properties of the delivery and the commit of main, checked under Spec.  *)
(***************************************************************************)

\* C17: once a delivery has failed in a run, that run makes no further
\* delivery attempt, neither for the rest of the channel group nor for a
\* later group.
C17_NoSendAfterFailure ==
    [][ cause = "send" =>
           /\ pc /= "send"
           /\ pc' /= "send"
           /\ (delivered' = delivered \/ pc' = "idle") ]_vars

C17_Witness ==
    /\ pc = "done"
    /\ cause = "send"
    /\ outcome = "failed"
    /\ delivered = <<>>
    /\ Len(items_by_channel) = 2
    /\ grp = 1
    /\ pos = 1
    /\ Len(items_by_channel[1].items) = 2

\* C18: no step removes a (feed_url, title) entry from the store, and the
\* content a run writes holds every entry of the snapshot the run read.
C18_StoreGrowsMonotonically ==
    [][ /\ Pairs(store) \subseteq Pairs(store')
        /\ (pc = "write" /\ pc' = "done") => Pairs(snap0) \subseteq Pairs(store') ]_vars

C18_Witness ==
    /\ run = 2
    /\ pc = "done"
    /\ outcome = "sent"
    /\ writes = 1
    /\ snap0 /= EmptyDict
    /\ Pairs(snap0) \subseteq Pairs(store)
    /\ Pairs(store) /= Pairs(snap0)
    /\ "feedB" \in DOMAIN store

\* The titles of the selected items of feed f.
SelectedTitles(f) ==
    { recent_items[new_items[k]].title :
        k \in { j \in 1..Len(new_items) : FeedAt(new_items[j]) = f } }

\* The titles of a list.
TitleSet(l) == { l[k] : k \in 1..Len(l) }

\* C19: after a fully successful run the store holds, for each feed, the
\* titles read at the start united with the titles of the selected items of
\* that feed, and the commit has added each new title once.
C19_CommitIsUnionWithoutDuplicates ==
    (pc = "done" /\ outcome = "sent") =>
        /\ DOMAIN store = DOMAIN snap0 \cup { FeedAt(new_items[k]) : k \in 1..Len(new_items) }
        /\ \A f \in DOMAIN store :
              /\ TitleSet(store[f]) = TitleSet(Get(snap0, f)) \cup SelectedTitles(f)
              /\ Len(store[f]) = Len(Get(snap0, f))
                                   + Cardinality(SelectedTitles(f) \ TitleSet(Get(snap0, f)))

C19_Witness ==
    /\ pc = "done"
    /\ outcome = "sent"
    /\ snap0 = [f \in {"feedA"} |-> <<"X">>]
    /\ Len(recent_items) = 3
    /\ recent_items[1].title = "X"
    /\ Len(new_items) = 2
    /\ \A k \in 1..2 : FeedAt(new_items[k]) = "feedA" /\ recent_items[new_items[k]].title = "Y"
    /\ store = [f \in {"feedA"} |-> <<"X", "Y">>]

(***************************************************************************)
(* Properties of update_state_gist, checked under SpecUpdate.              *)
(***************************************************************************)

ChannelRef(k) == recent_items[new_items[k]].channel_id

\* The reference of the k-th selected item is not set and there is no
\* fallback address.
Unresolvable(k) == env[ChannelRef(k)] = "" /\ env["TELEGRAM_CHANNEL_ID"] = ""

\* The k-th selected item was accepted by Telegram in this run.
Delivered(k) == \E d \in 1..Len(delivered) : delivered[d].item = k

\* C21: in a run that ends without a delivery or write failure, a selected
\* item whose channel cannot be resolved is left out and reported by one
\* admin notification, and every other selected item is delivered.
C21_UnresolvedItemAloneExcluded ==
    (pc = "done" /\ new_items /= <<>> /\ cause = "none") =>
        /\ admin = Cardinality({ k \in 1..Len(new_items) : Unresolvable(k) })
        /\ \A k \in 1..Len(new_items) : Delivered(k) <=> ~Unresolvable(k)

\* C22: every delivered item was sent to the address set under its channel
\* reference, or to the address of TELEGRAM_CHANNEL_ID when none is set
\* under the reference.
C22_DeliveredToResolvedAddress ==
    \A d \in 1..Len(delivered) :
        LET ref == ChannelRef(delivered[d].item)
        IN /\ env[ref] /= "" => delivered[d].chat = env[ref]
           /\ env[ref] = "" => delivered[d].chat = env["TELEGRAM_CHANNEL_ID"]

C22_Witness ==
    /\ pc = "done"
    /\ outcome = "sent"
    /\ env["TG_A"] = "chat1"
    /\ env["TG_B"] = ""
    /\ \E d \in 1..Len(delivered) :
          ChannelRef(delivered[d].item) = "TG_A" /\ delivered[d].chat = "chat1"
    /\ \E d \in 1..Len(delivered) :
          ChannelRef(delivered[d].item) = "TG_B" /\ delivered[d].chat = "chat0"

(***************************************************************************)
(* Properties of the admin notifications of main, checked under SpecRun.   *)
(***************************************************************************)

\* Every variable but the count of failed admin notifications.
AllButAdminFailed ==
    <<store, run, pc, env, has_telegram, recent_items, gist_filename,
      past_items, known_items, max_items, new_items, items_by_channel, grp,
      pos, delivered, admin, writes, snap0, cause, report, outcome, committed,
      prevFailed, bvars, fvars, gvars, lvars>>

\* C23: a step of main that calls send_admin never ends the run by an
\* exception of send_admin, and leads to the same position, outcome, store
\* and messages whichever of its notifications fail.
C23_AdminFailureChangesNothing ==
    [][ admin' > admin =>
           /\ outcome' /= "admin_error"
           /\ \A r \in {AllButAdminFailed'} :
                \A k \in 0..(admin' - admin) :
                   ENABLED (/\ NextRun
                            /\ AllButAdminFailed' = r
                            /\ admin_failed' = admin_failed + k) ]_vars

C23_Witness ==
    /\ pc = "done"
    /\ outcome = "failed"
    /\ cause = "send"
    /\ \E i \in 1..Len(fetch_log) : ~fetch_log[i].ok
    /\ admin = 2
    /\ admin_failed = 2
    /\ writes = 0
    /\ store = snap0

(***************************************************************************)
(* Properties of the early ends of main, checked under Spec.               *)
(***************************************************************************)

\* C24: a run whose read of the gist failed has ended; it selected nothing,
\* delivered nothing and issued no write.
C24_ReadFailureIsFatal ==
    outcome = "state_read_error" =>
        /\ pc = "done"
        /\ new_items = <<>>
        /\ items_by_channel = <<>>
        /\ delivered = <<>>
        /\ writes = 0

C24_Witness ==
    /\ pc = "done"
    /\ outcome = "state_read_error"
    /\ has_telegram
    /\ Len(recent_items) = 2
    /\ store /= EmptyDict

\* C25: main goes past the filters only with a candidate and past the
\* selection only with a selected item; otherwise the run ends at once,
\* reported to the admin when Telegram is configured, without an error,
\* a delivery or a write.
C25_NothingToDoEndsEarly ==
    /\ pc \in {"read", "select", "selected", "resolve", "send", "commit",
               "write", "except"} => recent_items /= <<>>
    /\ pc \in {"resolve", "send", "commit", "write", "except"} => new_items /= <<>>
    /\ outcome \in {"no_items_fetched", "no_recent_items", "no_new_items"} =>
          /\ pc = "done"
          /\ delivered = <<>>
          /\ writes = 0
          /\ cause = "none"
          /\ report = "none"
    /\ outcome \in {"no_recent_items", "no_new_items"} =>
          admin = IF has_telegram THEN 1 ELSE 0

C25_Witness ==
    /\ pc = "done"
    /\ outcome = "no_new_items"
    /\ has_telegram
    /\ admin = 1
    /\ recent_items /= <<>>
    /\ new_items = <<>>
    /\ snap0 /= EmptyDict
    /\ store = snap0

(***************************************************************************)
(* Properties of filter_recent_items, checked under SpecRecent.            *)
(***************************************************************************)

\* The age in seconds of the i-th input item at its is_recent call.
AgeAt(i) == clock[i] - recent_items[i].published

\* C26: filter_recent_items returns, in input order, exactly the items
\* without published and those whose age is at most max_age_days: an item
\* of exactly that age is kept, one a second older is dropped.
C26_AgeFilterBoundaryInclusive ==
    pc = "recent_returned" =>
        /\ \A j, k \in 1..Len(new_items) : j < k => new_items[j] < new_items[k]
        /\ \A i \in 1..Len(recent_items) :
              InList(i, new_items) <=>
                 \/ recent_items[i].published = 0
                 \/ AgeAt(i) <= max_age_days * SecondsPerDay

C26_Witness ==
    /\ pc = "recent_returned"
    /\ max_age_days = MAX_ITEM_AGE_DAYS
    /\ Len(recent_items) = 3
    /\ AgeAt(1) = MAX_ITEM_AGE_DAYS * SecondsPerDay + 1
    /\ AgeAt(2) = MAX_ITEM_AGE_DAYS * SecondsPerDay
    /\ recent_items[3].published = 0
    /\ new_items = <<2, 3>>

(***************************************************************************)
(* Properties of apply_rules, checked under SpecRules.                     *)
(***************************************************************************)

\* title + " " + summary of the i-th input item, as written in the feed.
TitleAndSummary(i) ==
    (IF recent_items[i].title.present THEN recent_items[i].title.v ELSE <<>>)
      \o <<" ">> \o
    (IF recent_items[i].summary.present THEN recent_items[i].summary.v ELSE <<>>)

\* kw occurs in text when the case of the letters is ignored.
OccursIgnoringCase(kw, text) ==
    \E off \in 0..(Len(text) - Len(kw)) :
        \A j \in 1..Len(kw) : LowerChar(text[off + j]) = LowerChar(kw[j])

\* The allow or deny keywords of the i-th input item; none when the list,
\* or the rules as a whole, is missing.
Keywords(i, name) ==
    IF recent_items[i].rules.present /\ recent_items[i].rules.v[name].present
    THEN { recent_items[i].rules.v[name].v[j] :
             j \in 1..Len(recent_items[i].rules.v[name].v) }
    ELSE {}

\* C27: apply_rules returns, in input order, exactly the items that have no
\* allow keyword or match one of them, and match no deny keyword; an item
\* that matches both an allow and a deny keyword is left out.
C27_AllowThenDenyWins ==
    pc = "rules_returned" =>
        /\ \A j, k \in 1..Len(new_items) : j < k => new_items[j] < new_items[k]
        /\ \A i \in 1..Len(recent_items) :
              InList(i, new_items) <=>
                 /\ \/ Keywords(i, "allow") = {}
                    \/ \E kw \in Keywords(i, "allow") :
                          OccursIgnoringCase(kw, TitleAndSummary(i))
                 /\ ~\E kw \in Keywords(i, "deny") :
                          OccursIgnoringCase(kw, TitleAndSummary(i))

C27_Witness ==
    /\ pc = "rules_returned"
    /\ Len(recent_items) = 2
    /\ \E kw \in Keywords(1, "allow") : OccursIgnoringCase(kw, TitleAndSummary(1))
    /\ \E kw \in Keywords(1, "deny") : OccursIgnoringCase(kw, TitleAndSummary(1))
    /\ ~recent_items[2].rules.present
    /\ new_items = <<2>>

(***************************************************************************)
(* Order within a feed, checked under SpecSelect.                          *)
(***************************************************************************)

\* published of the i-th input item (0: none).
PublishedAt(i) == recent_items[i].published

\* C28: when select_new_items has ended, the selected items of each feed
\* stand in ascending order of published, items with equal published in
\* input order; an undated and a dated new item of one feed are both
\* selected when the cap leaves room for every new item, the undated one
\* first.
C28_AscendingWithinFeed ==
    SelectEnded =>
        /\ \A j, k \in 1..Len(new_items) :
              (j < k /\ FeedAt(new_items[j]) = FeedAt(new_items[k])) =>
                 /\ PublishedAt(new_items[j]) <= PublishedAt(new_items[k])
                 /\ PublishedAt(new_items[j]) = PublishedAt(new_items[k]) =>
                       new_items[j] < new_items[k]
        /\ \A u, d \in Eligible :
              (/\ FeedAt(u) = FeedAt(d)
               /\ PublishedAt(u) = 0
               /\ PublishedAt(d) > 0
               /\ Cardinality(Eligible) <= max_items) =>
                 \E j, k \in 1..Len(new_items) :
                    j < k /\ new_items[j] = u /\ new_items[k] = d

(***************************************************************************)
(* Properties of the gist requests and the delivery order of main,         *)
(* checked under Spec.                                                     *)
(***************************************************************************)

\* C29: a run reads the gist at most once, and has read it once when it
\* selects, delivers or writes; it issues at most one PATCH, for the file
\* name its read returned.
C29_ReadOnceThenWriteAtMostOnce ==
    /\ reads <= 1
    /\ writes <= 1
    /\ pc \in {"select", "selected", "resolve", "send", "commit", "write",
               "except"} => reads = 1
    /\ (new_items /= <<>> \/ delivered /= <<>> \/ writes > 0) => reads = 1
    /\ writes > 0 => patched = gist_filename /\ patched = "state.json"
    /\ writes = 0 => patched = ""

C29_Witness ==
    /\ pc = "done"
    /\ outcome = "sent"
    /\ run = 2
    /\ reads = 1
    /\ writes = 1
    /\ patched = "state.json"
    /\ delivered /= <<>>

\* The address the k-th selected item is to be sent to.
ChatOf(k) ==
    IF env[ChannelRef(k)] /= "" THEN env[ChannelRef(k)]
    ELSE env["TELEGRAM_CHANNEL_ID"]

\* The place in the selection of the first item to be sent to chat.
FirstFor(chat) ==
    CHOOSE k \in 1..Len(new_items) :
        /\ ChatOf(k) = chat
        /\ \A j \in 1..(k - 1) : ChatOf(j) /= chat

\* The k-th selected item is sent before the l-th: its channel appears
\* first in the selection, or they share the channel and k comes first.
SentBefore(k, l) ==
    IF ChatOf(k) = ChatOf(l) THEN k < l
    ELSE FirstFor(ChatOf(k)) < FirstFor(ChatOf(l))

\* C30: the messages are delivered channel by channel, the channels in the
\* order of their first item in the selection, the items of a channel in
\* selection order: a delivered item comes after every item that is to be
\* sent before it.
C30_DeliveryOrder ==
    /\ \A a, b \in 1..Len(delivered) :
          a < b => SentBefore(delivered[a].item, delivered[b].item)
    /\ \A b \in 1..Len(delivered) : \A k \in 1..Len(new_items) :
          SentBefore(k, delivered[b].item) => Delivered(k)

C30_Witness ==
    /\ pc = "done"
    /\ outcome = "sent"
    /\ Len(new_items) = 3
    /\ ChatOf(1) = "chat1" /\ ChatOf(2) = "chat1" /\ ChatOf(3) = "chat2"
    /\ Len(delivered) = 3
    /\ \A d \in 1..3 : delivered[d].item = d

(***************************************************************************)
(* Further properties of send_items, checked under SpecBackoff.            *)
(***************************************************************************)

\* C31: send_items waits pause_sec once after each delivered item, the last
\* item of the list included, and never after an item whose delivery
\* failed: the pauses made so far are as many as the items delivered, less
\* the one whose pause is about to start; n items all delivered make n
\* pauses.
C31_OnePausePerDeliveredItem ==
    /\ pc = "pause" => Len(delivered) = msg /\ pauses = msg - 1
    /\ pc = "post" => Len(delivered) = msg - 1 /\ pauses = msg - 1
    /\ pc = "raised" => Len(delivered) = msg - 1 /\ pauses = msg - 1
    /\ pc = "items_sent" => Len(delivered) = msgs /\ pauses = msgs

C31_Witness ==
    /\ pc = "items_sent"
    /\ msgs = 2
    /\ pauses = 2
    /\ Len(delivered) = 2

(***************************************************************************)
(* Properties of the start of main, checked under Spec.                    *)
(***************************************************************************)

\* C32: a run started without STATE_GIST_ID or without GH_GIST_UPDATE_TOKEN
\* has ended before the fetch loop: nothing was fetched, read from the gist,
\* selected, delivered or written, and the admin was notified exactly once
\* when Telegram is configured and not at all otherwise.
C32_NoStateConfigEndsAtOnce ==
    pc /= "idle" /\ (env["STATE_GIST_ID"] = "" \/ env["GH_GIST_UPDATE_TOKEN"] = "") =>
        /\ pc = "done"
        /\ outcome = "no_state_config"
        /\ feed_idx = 0
        /\ all_items = <<>>
        /\ recent_items = <<>>
        /\ reads = 0
        /\ new_items = <<>>
        /\ delivered = <<>>
        /\ writes = 0
        /\ patched = ""
        /\ admin = IF has_telegram THEN 1 ELSE 0

C32_Witness ==
    /\ pc = "done"
    /\ env["STATE_GIST_ID"] /= ""
    /\ env["GH_GIST_UPDATE_TOKEN"] = ""
    /\ has_telegram
    /\ admin = 1
    /\ store /= EmptyDict

(***************************************************************************)
(* Properties of the fetch loop of main, checked under SpecRun.            *)
(***************************************************************************)

\* What the feeds log[1..k] gave, in the order of the loop.
RECURSIVE Collected(_, _)
Collected(log, k) ==
    IF k = 0 THEN <<>> ELSE Collected(log, k - 1) \o log[k].items

\* The entries of the loop whose fetch raised.
FailedFetches == { i \in 1..Len(fetch_log) : ~fetch_log[i].ok }

\* C33: a feed whose fetch or parse raised contributes no item and is
\* reported to the admin when Telegram is configured; the loop goes on to
\* every other feed, whose items are all collected, and those of them that
\* pass the filters are the candidates of the selection.
C33_FetchFailureSkipsOnlyThatFeed ==
    /\ all_items = Collected(fetch_log, Len(fetch_log))
    /\ \A i \in FailedFetches : \A k \in 1..Len(all_items) :
          all_items[k].feed_url /= fetch_log[i].feed_url
    /\ pc = "fetch" =>
          admin = IF has_telegram THEN Cardinality(FailedFetches) ELSE 0
    /\ pc \notin {"idle", "fetch"} /\ outcome /= "no_state_config" => FetchLoopDone
    /\ pc \in {"read", "select", "selected", "resolve", "send", "commit",
               "write", "except"} =>
          \A k \in 1..Len(all_items) :
              is_recent(all_items[k], MAX_ITEM_AGE_DAYS, Now0) =>
                  InList(all_items[k], recent_items)

C33_Witness ==
    /\ pc = "done"
    /\ outcome = "sent"
    /\ has_telegram
    /\ Len(fetch_log) = 2
    /\ ~fetch_log[1].ok
    /\ Len(fetch_log[2].items) = 3
    /\ admin = 1
    /\ Len(delivered) = 2
    /\ \A k \in 1..Len(delivered) :
          recent_items[new_items[delivered[k].item]].feed_url = "feedB"
    /\ writes = 1

(***************************************************************************)
(* Properties of the dry run, checked under SpecRun.                       *)
(***************************************************************************)

\* C34: a run without the full Telegram configuration never reaches the
\* delivery, the commit or the write; it sends no message to a channel or
\* to the admin, issues no PATCH, and no step of it changes the content of
\* the gist, whatever was fetched and selected.
C34_DryRunChangesNothing ==
    /\ [](pc /= "idle" /\ ~has_telegram =>
            /\ pc \notin {"resolve", "send", "commit", "write", "except"}
            /\ delivered = <<>>
            /\ items_by_channel = <<>>
            /\ admin = 0
            /\ writes = 0
            /\ patched = ""
            /\ committed = {}
            /\ (reads > 0 /\ outcome /= "state_read_error" => store = snap0))
    /\ [][~has_telegram' => store' = store]_vars

C34_Witness ==
    /\ pc = "done"
    /\ outcome = "dry_run"
    /\ ~has_telegram
    /\ env["TG_A"] /= ""
    /\ FailedFetches /= {}
    /\ Len(new_items) = 2
    /\ store /= EmptyDict
    /\ store = snap0
    /\ admin = 0

(***************************************************************************)
(* Further properties of the channel resolution, checked under Spec.       *)
(***************************************************************************)

\* The k-th selected item is in one of the groups to send.
Grouped(k) ==
    \E g \in 1..Len(items_by_channel) : InList(k, items_by_channel[g].items)

\* C35: main attempts a delivery only with the full Telegram configuration,
\* fallback address included; every selected item then has an address, no
\* item is left out of the groups and the admin gets no notice of an
\* unresolved channel (the environment is the same during the whole run).
C35_NoItemUnresolvedAtDelivery ==
    pc \in {"resolve", "send", "commit", "write", "except"} =>
        /\ has_telegram
        /\ env["TELEGRAM_CHANNEL_ID"] /= ""
        /\ \A k \in 1..Len(new_items) : ~Unresolvable(k)
        /\ pc /= "resolve" =>
              /\ \A k \in 1..Len(new_items) : Grouped(k)
              /\ \A g \in 1..Len(items_by_channel) : items_by_channel[g].chat /= ""
              /\ admin = 0

C35_Witness ==
    /\ pc = "send"
    /\ env["TG_A"] = ""
    /\ env["TG_B"] = ""
    /\ Len(new_items) = 2
    /\ ChannelRef(1) /= ChannelRef(2)
    /\ Len(items_by_channel) = 1
    /\ items_by_channel[1].chat = env["TELEGRAM_CHANNEL_ID"]
    /\ Len(items_by_channel[1].items) = 2

(***************************************************************************)
(* Further properties of the state commit, checked under Spec.             *)
(***************************************************************************)

\* C36: main reaches the commit only with a selection that is not empty and
\* has no title of the snapshot as read; the snapshot it then writes has a
\* (feed, title) pair the read one had not, so the write is not skipped and
\* a run whose deliveries all succeeded has issued exactly one PATCH.
C36_CommitAlwaysHasNewTitle ==
    /\ pc \in {"commit", "write"} =>
          /\ new_items /= <<>>
          /\ \A k \in 1..Len(new_items) :
                LET it == recent_items[new_items[k]]
                IN ~InList(it.title, Get(snap0, it.feed_url))
    /\ pc = "write" =>
          /\ known_items /= EmptyDict
          /\ Pairs(known_items) \ Pairs(snap0) /= {}
    /\ DeliverySucceeded /\ pc \in {"except", "done"} => writes = 1
    /\ outcome = "sent" => writes = 1 /\ patched = gist_filename

C36_Witness ==
    /\ pc = "done"
    /\ outcome = "sent"
    /\ writes = 1
    /\ snap0 /= EmptyDict
    /\ Len(recent_items) = 3
    /\ Len(new_items) = 2
    /\ store /= snap0

\* C37: every message starts with retry count 0 and no sleep behind it,
\* whatever the messages before it used: it has all of its max_retries + 1
\* attempts, its first sleep without a hint is 60 seconds, and the list's
\* attempts up to the msg-th message are at most msg * (max_retries + 1).
C37_RetryBudgetPerMessage ==
    /\ pc = "post" /\ attempts = 0 => retry_count = 0 /\ sleeps = <<>>
    /\ attempts \in {retry_count, retry_count + 1}
    /\ attempts <= max_retries + 1
    /\ pc = "post" => RetriesRemain(retry_count, max_retries) \/ retry_count = max_retries
    /\ sleeps /= <<>> /\ sleeps[1].header = NoHeader => sleeps[1].secs = 60
    /\ total_attempts <= msg * (max_retries + 1)
    /\ total_attempts <= msgs * (max_retries + 1)

C37_Witness ==
    /\ msgs = 2
    /\ msg = 2
    /\ max_retries = 2
    /\ failure = "rate_limit"
    /\ attempts = max_retries + 1
    /\ total_attempts = 2 * (max_retries + 1)
    /\ sleeps[1] = [secs |-> 60, header |-> NoHeader]

(***************************************************************************)
(* Termination of send_message_with_backoff (SpecBackoffLive).             *)
(***************************************************************************)

\* C38: every post either ends the call, by a return or by a failure raised
\* inside the loop, or is followed by a retry count one larger; so a call
\* makes at most max_retries + 1 posts and always ends, and the failure
\* raised after the loop is never reached.
C38_BackoffCallTerminates ==
    /\ [](failure /= "retries_exhausted" /\ attempts <= max_retries + 1)
    /\ [][pc = "post" =>
            /\ attempts' = attempts + 1
            /\ \/ pc' \in {"pause", "raised"}
               \/ pc' = "post" /\ retry_count' = retry_count + 1 ]_vars
    /\ (pc = "post" ~> pc \in {"pause", "raised"})

C38_Witness ==
    /\ pc = "pause"
    /\ max_retries = 3
    /\ retry_count = max_retries
    /\ attempts = max_retries + 1

(***************************************************************************)
(* The arguments of the three list functions, checked under SpecCalls.     *)
(***************************************************************************)

\* The positions of l are positions of the input list, each at most once.
DistinctPositions(l) ==
    /\ \A k \in 1..Len(l) : l[k] \in 1..Len(recent_items)
    /\ \A j, k \in 1..Len(l) : j /= k => l[j] /= l[k]

====
